---- MODULE Spec2Model ----
(***************************************************************************)
(* aiohttp-apischema: SchemaGenerator (src/aiohttp_apischema/generator.py) *)
(*                                                                         *)
(* The generator is modelled as a state machine over the application      *)
(* lifecycle: handlers and views are registered (api, api_view), routes    *)
(* are added to the router, the startup signal assembles the OpenAPI       *)
(* document (_on_startup), and then requests are served through the        *)
(* wrappers installed at registration (make_wrapper).                      *)
(*                                                                         *)
(* Python dicts with optional keys (TypedDict, total=False) are functions  *)
(* whose DOMAIN is the set of keys present.  Python objects that are       *)
(* shared by reference (the _EndpointData dicts, which the registry and    *)
(* the wrapper closures both hold) live in a heap and are named by their   *)
(* index.                                                                  *)
(***************************************************************************)
EXTENDS Integers, Sequences, FiniteSets, TLC

VARIABLES
    endpoints,   \* SchemaGenerator._endpoints: handler/view identity -> _Endpoint
    openapi,     \* SchemaGenerator._openapi
    heap,        \* the _EndpointData objects, in creation order
    wrappers,    \* heap index -> the closure of the outer_wrapper made for it
    viewattrs,   \* view class -> method name -> the callable now set on the class
    routes,      \* app.router.routes(), in insertion order
    phase,       \* "setup" | "serving" | "failed": the application lifecycle
    calls,       \* the requests dispatched so far, each with its position and outcome
    log          \* the result of every registration and assembly step, in order

vars == <<endpoints, openapi, heap, wrappers, viewattrs, routes, phase, calls, log>>

(***************************************************************************)
(* Bounds of the model.                                                    *)
(***************************************************************************)
MaxRegs == 2      \* registrations (api / api_view calls)
MaxRoutes == 2    \* routes added to the router
MaxCalls == 1     \* requests dispatched after startup
MaxStartups == 2  \* runs of the startup coroutine
\* An application of at most SmallRegs registrations and SmallRoutes routes of
\* its own serves up to MaxConcurrent requests at a time.
SmallRegs == 1
SmallRoutes == 1
MaxConcurrent == 2

(***************************************************************************)
(* Dict helpers.                                                           *)
(***************************************************************************)
Get(d, k, default) == IF k \in DOMAIN d THEN d[k] ELSE default

Put(d, k, v) == [x \in (DOMAIN d) \cup {k} |-> IF x = k THEN v ELSE d[x]]

EmptyDict == [x \in {} |-> x]

Range(s) == {s[i] : i \in DOMAIN s}

\* An insertion-ordered dict as a sequence of <<key, value>>: d[k] = v keeps the
\* position of a key already present.
OKeys(od) == {od[i][1] : i \in DOMAIN od}

OGet(od, k) ==
    LET i == CHOOSE j \in DOMAIN od : od[j][1] = k IN od[i][2]

OPut(od, k, v) ==
    IF k \in OKeys(od)
    THEN [i \in DOMAIN od |-> IF od[i][1] = k THEN <<k, v>> ELSE od[i]]
    ELSE Append(od, <<k, v>>)

(***************************************************************************)
(* src/aiohttp_apischema/generator.py:29                                   *)
(***************************************************************************)
OPENAPI_METHODS == {"get", "put", "post", "delete", "options", "head", "patch", "trace"}

\* Mutant: every method name is taken for an OpenAPI method.
is_openapi_methodAny(method) == TRUE

is_openapi_method(method) == method \in OPENAPI_METHODS

\* aiohttp.hdrs.METH_ALL, lower-cased, in the order api_view visits it.
METH_ALL == <<"connect", "head", "get", "delete", "options", "patch", "post", "put", "trace">>

\* str.lower on the method names the router knows.
Lower(m) ==
    CASE m = "GET" -> "get"
      [] m = "HEAD" -> "head"
      [] m = "PUT" -> "put"
      [] m = "POST" -> "post"
      [] m = "CONNECT" -> "connect"
      [] OTHER -> m

(***************************************************************************)
(* The handlers and views of the application.  A signature is the list of  *)
(* inspect.Parameter (name, kind, annotation); a return annotation is the  *)
(* list of the union's members, each the get_args of an APIResponse[...].  *)
(***************************************************************************)
Param(name, kind, ann) == [name |-> name, kind |-> kind, annotation |-> ann]

POK == "POSITIONAL_OR_KEYWORD"
KWO == "KEYWORD_ONLY"

Functions ==
    [ list_polls |->
        [ name |-> "list_polls",
          doc |-> <<"List available polls.", "", "Return details about each poll.", "">>,
          params |-> << Param("request", POK, "web.Request") >>,
          returns |-> << <<"tuple[Poll, ...]", 200>> >> ],
      add_choice |->
        [ name |-> "add_choice",
          doc |-> << >>,
          params |-> << Param("request", POK, "web.Request"),
                        Param("message", POK, "str"),
                        Param("query", KWO, "QueryArgs") >>,
          returns |-> << <<"int", 201>>, <<"None", 404>> >> ],
      odd_status |->
        [ name |-> "odd_status",
          doc |-> <<"Odd.">>,
          params |-> << Param("request", POK, "web.Request") >>,
          returns |-> << <<"Poll", 299>> >> ] ]

Views ==
    [ PollView |->
        [ name |-> "PollView",
          doc |-> <<"Endpoints for individual polls.">>,
          methods |->
            [ get |->
                [ name |-> "get",
                  doc |-> <<"Fetch poll.">>,
                  params |-> << Param("self", POK, "empty") >>,
                  returns |-> << <<"Poll", 200>>, <<"None", 404>> >> ],
              put |->
                [ name |-> "put",
                  doc |-> << >>,
                  params |-> << Param("self", POK, "empty"),
                                Param("body", POK, "NewPoll") >>,
                  returns |-> << <<"Poll">> >> ],
              head |->
                [ name |-> "head",
                  doc |-> << >>,
                  params |-> << Param("self", POK, "empty"),
                                Param("query", KWO, "QueryArgs") >>,
                  returns |-> << <<"None">> >> ] ] ] ]

FunctionNames == DOMAIN Functions
ViewNames == DOMAIN Views

\* The tag lists passed to api(tags=...) / api_view(tags=...).
TagChoices == { << >>, <<"b_tag", "a_tag">> }

\* The info passed to SchemaGenerator(info): None, or a custom Info.
NoInfo == [x \in {} |-> x]
CustomInfo == [title |-> "T", version |-> "2"]
InfoChoices == { NoInfo, CustomInfo }

(***************************************************************************)
(* Callables are named by identity: <<kind, name, serial>>.                *)
(*   <<"fn", f, 0>>       the function f (or "View.m" for a view's method) *)
(*   <<"wrapper", f, e>>  the outer_wrapper make_wrapper made around heap  *)
(*                        object e; functools.wraps gives it f's __name__  *)
(*   <<"view", v, 0>>     the view class v                                 *)
(***************************************************************************)
Fn(f) == <<"fn", f, 0>>
Wrapper(f, e) == <<"wrapper", f, e>>
ViewClass(v) == <<"view", v, 0>>

MethodFn(v, m) == Fn(v \o "." \o m)

\* The function a callable is, or wraps (inspect.signature and inspect.getdoc
\* follow functools.wraps).
Definition(c) ==
    IF c[2] \in FunctionNames THEN Functions[c[2]]
    ELSE LET vm == CHOOSE p \in {<<v, m>> : v \in ViewNames, m \in Range(METH_ALL)} :
                       /\ p[2] \in DOMAIN Views[p[1]].methods
                       /\ c[2] = p[1] \o "." \o p[2]
         IN Views[vm[1]].methods[vm[2]]

NameOf(c) == IF c[1] = "view" THEN Views[c[2]].name ELSE Definition(c).name

(***************************************************************************)
(* SchemaGenerator._save_handler (generator.py:209-254).                   *)
(***************************************************************************)
\* str.strip on the remainder of the documentation, line-wise: the blank lines
\* at both ends go.
RECURSIVE LStrip(_)
LStrip(lines) ==
    IF lines # << >> /\ Head(lines) = "" THEN LStrip(Tail(lines)) ELSE lines

RECURSIVE RStrip(_)
RStrip(lines) ==
    IF lines # << >> /\ lines[Len(lines)] = ""
    THEN RStrip(SubSeq(lines, 1, Len(lines) - 1))
    ELSE lines

Strip(lines) == RStrip(LStrip(lines))

\* docs.split("\n", maxsplit=1): the first line, and the stripped remainder.
DocSummary(doc) == IF doc = << >> THEN "" ELSE Head(doc)
DocDesc(doc) == IF Len(doc) > 1 THEN Strip(Tail(doc)) ELSE << >>

\* generator.py:211-221.  The keys the documentation block stores.
DocKeys(doc, tags) ==
    IF doc # << >>
    THEN LET s == IF DocSummary(doc) # "" THEN [summary |-> DocSummary(doc)] ELSE EmptyDict
             d == IF DocDesc(doc) # << >> THEN [desc |-> DocDesc(doc)] ELSE EmptyDict
             t == IF tags # << >> THEN [tags |-> tags] ELSE EmptyDict
         IN s @@ d @@ t
    ELSE EmptyDict

\* generator.py:224-235.  The index of the body parameter, 0 when there is none
\* (StopIteration, or a parameter that is not positional).
BodyIndex(params) ==
    LET i1 == 1
        skip1 == params[i1].name \in {"self", "cls"} \/ params[i1].annotation = "empty"
        i2 == IF skip1 THEN i1 + 1 ELSE i1
        stop2 == i2 > Len(params)
        skip2 == ~stop2 /\ (params[i2].name = "request" \/ params[i2].annotation = "web.Request")
        i3 == IF skip2 THEN i2 + 1 ELSE i2
        stop3 == stop2 \/ i3 > Len(params)
    IN IF stop3 THEN 0
       ELSE IF params[i3].kind \in {"POSITIONAL_ONLY", "POSITIONAL_OR_KEYWORD"} THEN i3
       ELSE 0

\* TypeAdapter(Json[T]) and TypeAdapter(T).
Json(t) == <<"Json", t>>
Plain(t) == <<"Plain", t>>

BodyKeys(params) ==
    IF BodyIndex(params) # 0
    THEN [body |-> Json(params[BodyIndex(params)].annotation)]
    ELSE EmptyDict

\* generator.py:237-239.
QueryKeys(params) ==
    LET q == {i \in DOMAIN params : params[i].name = "query"}
    IN IF q # {} /\ params[CHOOSE i \in q : TRUE].kind = "KEYWORD_ONLY"
       THEN [query_raw |-> params[CHOOSE i \in q : TRUE].annotation]
       ELSE EmptyDict

\* generator.py:241-252.  One entry per member of the return union; a member
\* without a status literal (IndexError) is code 200.
RECURSIVE Resps(_)
Resps(returns) ==
    IF returns = << >> THEN << >>
    ELSE LET args == returns[Len(returns)]
             code == IF Len(args) >= 2 THEN args[2] ELSE 200
         IN OPut(Resps(SubSeq(returns, 1, Len(returns) - 1)), code, Plain(args[1]))

_save_handler(handler, tags) ==
    DocKeys(handler.doc, tags) @@ BodyKeys(handler.params) @@ QueryKeys(handler.params)
        @@ [resps |-> Resps(handler.returns)]

(***************************************************************************)
(* make_wrapper (generator.py:169-200): None unless the endpoint has a     *)
(* body or a query_raw key; else a closure over ep_data (heap index e),    *)
(* the wrapped callable and the calling convention of the entry point.     *)
(***************************************************************************)
\* Mutant: every endpoint gets a wrapper.
NeedsWrapperAlways(ep_data) == TRUE

NeedsWrapper(ep_data) == {"body", "query_raw"} \cap DOMAIN ep_data # {}

make_wrapper(e, ep_data, wrapped, conv) ==
    IF ~NeedsWrapper(ep_data) THEN << >>
    ELSE << [id |-> Wrapper(wrapped[2], e), wrapped |-> wrapped, conv |-> conv] >>

(***************************************************************************)
(* SchemaGenerator.__init__ (generator.py:203-207).                        *)
(***************************************************************************)
DefaultInfo == [title |-> "API", version |-> "1.0"]

\* Mutant: the placeholder info is used whatever the caller passed.
NewOpenApiPlaceholder(info) == [openapi |-> "3.1.0", info |-> DefaultInfo]

NewOpenApi(info) ==
    [openapi |-> "3.1.0", info |-> IF info = NoInfo THEN DefaultInfo ELSE info]

Init ==
    /\ endpoints = EmptyDict
    /\ \E info \in InfoChoices :
          /\ openapi = NewOpenApi(info)
          /\ log = << [op |-> "__init__", info |-> info] >>
    /\ heap = << >>
    /\ wrappers = EmptyDict
    /\ viewattrs = [v \in ViewNames |-> [m \in DOMAIN Views[v].methods |-> MethodFn(v, m)]]
    /\ routes = << >>
    /\ phase = "setup"
    /\ calls = << >>

Registrations == Len(SelectSeq(log, LAMBDA r : r.op \in {"api", "api_view"}))

(***************************************************************************)
(* SchemaGenerator.api (generator.py:282-294): the decorator applied to    *)
(* the function f.  The descriptor is stored under the wrapper when one is *)
(* made, else under the handler itself; nothing checks whether the key is  *)
(* already there.                                                          *)
(***************************************************************************)
api(f, tags) ==
    LET handler == Fn(f)
        ep_data == _save_handler(Functions[f], tags)
        e       == Len(heap) + 1
        wrapper == make_wrapper(e, ep_data, handler, "request")
        key     == IF wrapper # << >> THEN wrapper[1].id ELSE handler
    IN /\ phase = "setup"
       /\ Registrations < MaxRegs
       /\ heap' = Append(heap, ep_data)
       /\ wrappers' = IF wrapper # << >> THEN Put(wrappers, e, wrapper[1]) ELSE wrappers
       /\ endpoints' = Put(endpoints, key, [meths |-> << <<"None", e>> >>])
       /\ log' = Append(log, [op |-> "api", target |-> handler, tags |-> tags,
                               returned |-> key, raised |-> FALSE,
                               replaced |-> key \in DOMAIN endpoints])
       /\ UNCHANGED <<openapi, viewattrs, routes, phase, calls>>

(***************************************************************************)
(* SchemaGenerator.api_view (generator.py:256-280): the decorator applied  *)
(* to the view class v.  The entry of the class is overwritten first; then *)
(* every method the class has, in METH_ALL order, is introspected as it is *)
(* now set on the class, and replaced by its wrapper when one is made.     *)
(***************************************************************************)
ViewDocKeys(doc) ==
    IF doc # << >>
    THEN LET s == IF DocSummary(doc) # "" THEN [summary |-> DocSummary(doc)] ELSE EmptyDict
             d == IF DocDesc(doc) # << >> THEN [desc |-> DocDesc(doc)] ELSE EmptyDict
         IN s @@ d
    ELSE EmptyDict

\* (getattr(view, m), m) for m in METH_ALL if hasattr(view, m)
ViewMethods(v) == SelectSeq(METH_ALL, LAMBDA m : m \in DOMAIN viewattrs[v])

api_view(v, tags) ==
    LET methods == ViewMethods(v)
        base    == Len(heap)
        func(i) == viewattrs[v][methods[i]]
        ep(i)   == _save_handler(Definition(func(i)), tags)
        wrap(i) == make_wrapper(base + i, ep(i), func(i), "view")
        made    == {i \in DOMAIN methods : wrap(i) # << >>}
    IN /\ phase = "setup"
       /\ Registrations < MaxRegs
       /\ heap' = heap \o [i \in DOMAIN methods |-> ep(i)]
       /\ wrappers' = [e \in DOMAIN wrappers \cup {base + i : i \in made} |->
                          IF e \in DOMAIN wrappers THEN wrappers[e] ELSE wrap(e - base)[1]]
       /\ viewattrs' = [viewattrs EXCEPT ![v] =
                          [m \in DOMAIN viewattrs[v] |->
                              LET i == CHOOSE j \in DOMAIN methods : methods[j] = m
                              IN IF i \in made THEN wrap(i)[1].id ELSE viewattrs[v][m]]]
       /\ endpoints' = Put(endpoints, ViewClass(v),
                           ViewDocKeys(Views[v].doc) @@
                           [meths |-> [i \in DOMAIN methods |-> <<methods[i], base + i>>]])
       /\ log' = Append(log, [op |-> "api_view", target |-> ViewClass(v), tags |-> tags,
                               returned |-> ViewClass(v), raised |-> FALSE,
                               replaced |-> ViewClass(v) \in DOMAIN endpoints])
       /\ UNCHANGED <<openapi, routes, phase, calls>>

(***************************************************************************)
(* The types the handlers are annotated with, as typing sees them.         *)
(*   class      a class (issubclass works on it)                           *)
(*   alias      a generic alias such as tuple[Poll, ...] (issubclass        *)
(*              raises TypeError)                                          *)
(*   Literal    get_origin is Literal; args are the literal values         *)
(*   TypedDict  a named record: fields in declaration order                *)
(***************************************************************************)
StrValue(s) == [type |-> "str", repr |-> s]
IntValue(s) == [type |-> "int", repr |-> s]
ObjValue(s) == [type |-> "object", repr |-> s]

Field(name, type, required) == [name |-> name, type |-> type, required |-> required]

Types ==
    ("int" :> [kind |-> "class", str |-> FALSE, named |-> FALSE])
    @@ ("str" :> [kind |-> "class", str |-> TRUE, named |-> FALSE])
    @@ ("None" :> [kind |-> "class", str |-> FALSE, named |-> FALSE])
    @@ ("tuple[Poll, ...]" :> [kind |-> "alias", item |-> "Poll", named |-> FALSE])
    @@ ("Literal['eggz']" :> [kind |-> "Literal", args |-> <<StrValue("eggz")>>, named |-> FALSE])
    @@ ("Literal['eggz', 1]" :> [kind |-> "Literal", named |-> FALSE,
                                 args |-> <<StrValue("eggz"), IntValue("1")>>])
    @@ ("Poll" :> [kind |-> "TypedDict", named |-> TRUE,
                   fields |-> <<Field("id", "int", TRUE), Field("question", "str", TRUE)>>])
    @@ ("NewPoll" :> [kind |-> "TypedDict", named |-> TRUE,
                      fields |-> <<Field("question", "str", TRUE)>>])
    @@ ("QueryArgs" :> [kind |-> "TypedDict", named |-> TRUE,
                        fields |-> <<Field("foo", "int", TRUE),
                                     Field("spam", "Literal['eggz']", FALSE),
                                     Field("name", "str", FALSE),
                                     Field("pick", "Literal['eggz', 1]", FALSE)>>])

(***************************************************************************)
(* The validation engine (pydantic), at its interface: JSON Schema of a    *)
(* type, and validation of a wire value against a TypeAdapter.             *)
(***************************************************************************)
\* Mutant: the engine's own place for shared definitions.
RefTemplateDefs(model) == "#/$defs/" \o model

RefTemplate(model) == "#/components/schemas/" \o model

\* The schema fragment of a type: a named composite type becomes a reference.
RECURSIVE TypeSchema(_)
TypeSchema(t) ==
    CASE t = "int" -> [type |-> "integer"]
      [] t = "str" -> [type |-> "string"]
      [] t = "None" -> [type |-> "null"]
      [] Types[t].kind = "alias" -> [type |-> "array", items |-> TypeSchema(Types[t].item)]
      [] Types[t].kind = "Literal" /\ Len(Types[t].args) = 1 ->
            [type |-> "string", const |-> Types[t].args[1].repr]
      [] Types[t].kind = "Literal" -> [enum |-> Types[t].args]
      [] OTHER -> ("$ref" :> RefTemplate(t))

\* The named composite types a type refers to.
RECURSIVE TypeDefs(_)
TypeDefs(t) ==
    CASE Types[t].kind = "alias" -> TypeDefs(Types[t].item)
      [] Types[t].kind = "TypedDict" ->
            {t} \cup UNION {TypeDefs(Types[t].fields[i].type) : i \in DOMAIN Types[t].fields}
      [] OTHER -> {}

\* The shared definition of a named composite type.
DefSchema(t) ==
    [type |-> "object", title |-> t,
     properties |-> [i \in DOMAIN Types[t].fields |->
                        <<Types[t].fields[i].name, TypeSchema(Types[t].fields[i].type)>>],
     required |-> SelectSeq([i \in DOMAIN Types[t].fields |-> Types[t].fields[i].name],
                            LAMBDA n : \E i \in DOMAIN Types[t].fields :
                                /\ Types[t].fields[i].name = n
                                /\ Types[t].fields[i].required)]

\* The schema of a TypeAdapter: Json[T] is a string holding JSON of T.
AdapterSchema(ta) ==
    IF ta[1] = "Json"
    THEN [type |-> "string", contentMediaType |-> "application/json",
          contentSchema |-> TypeSchema(ta[2])]
    ELSE TypeSchema(ta[2])

\* json.loads on the wire values of the model: << >> when it is not JSON.
JsonLoads(raw) ==
    CASE raw = "12" -> <<IntValue("12")>>
      [] raw = "1" -> <<IntValue("1")>>
      [] raw = "\"eggz\"" -> <<StrValue("eggz")>>
      [] raw = "\"spam\"" -> <<StrValue("spam")>>
      [] raw = "{\"question\": \"spam?\"}" -> <<ObjValue(raw)>>
      [] OTHER -> << >>

\* Whether a decoded value is of type t.
IsInstance(v, t) ==
    CASE t = "int" -> v.type = "int"
      [] t = "str" -> v.type = "str"
      [] t = "None" -> FALSE
      [] Types[t].kind = "Literal" -> v \in Range(Types[t].args)
      [] Types[t].kind = "TypedDict" -> v.type = "object"
      [] OTHER -> FALSE

Error(type, loc) == [type |-> type, loc |-> loc]
Valid(v) == [ok |-> TRUE, value |-> v, errors |-> << >>]
Invalid(errs) == [ok |-> FALSE, value |-> StrValue(""), errors |-> errs]

\* TypeAdapter(T or Json[T]).validate_python(raw) for one wire value, whose
\* errors are located at loc.
ValidateValue(ta, raw, loc) ==
    IF ta[1] = "Json"
    THEN IF JsonLoads(raw) = << >> THEN Invalid(<<Error("json_invalid", loc)>>)
         ELSE IF IsInstance(JsonLoads(raw)[1], ta[2]) THEN Valid(JsonLoads(raw)[1])
         ELSE Invalid(<<Error(ta[2] \o "_type", loc)>>)
    ELSE IF IsInstance(StrValue(raw), ta[2]) THEN Valid(StrValue(raw))
         ELSE IF ta[2] = "int" /\ JsonLoads(raw) # << >> /\ JsonLoads(raw)[1].type = "int"
              THEN Valid(JsonLoads(raw)[1])
         ELSE Invalid(<<Error(ta[2] \o "_type", loc)>>)

\* TypeAdapter(TypedDict(name, td)).validate_python(request.query): every field
\* present is validated by its own adapter, a required field must be present,
\* and all the errors are reported together.
RECURSIVE ValidateFields(_, _)
ValidateFields(fields, query) ==
    IF fields = << >> THEN [value |-> EmptyDict, errors |-> << >>]
    ELSE LET f    == fields[Len(fields)]
             rest == ValidateFields(SubSeq(fields, 1, Len(fields) - 1), query)
         IN IF f.name \notin DOMAIN query
            THEN IF f.required
                 THEN [rest EXCEPT !.errors = Append(@, Error("missing", <<f.name>>))]
                 ELSE rest
            ELSE LET r == ValidateValue(f.adapter, query[f.name], <<f.name>>)
                 IN IF r.ok
                    THEN [rest EXCEPT !.value = Put(@, f.name, r.value)]
                    ELSE [rest EXCEPT !.errors = @ \o r.errors]

ValidateQuery(query_ta, query) ==
    LET r == ValidateFields(query_ta.fields, query)
    IN [ok |-> r.errors = << >>, value |-> r.value, errors |-> r.errors]

(***************************************************************************)
(* The router.  A route is (method, resource.canonical, handler).          *)
(***************************************************************************)
Route(method, path, handler) == [method |-> method, path |-> path, handler |-> handler]

\* The (method, path) pairs the application routes.
RouteKeys == { <<"GET", "/polls">>, <<"HEAD", "/polls">>, <<"*", "/poll/{id}">> }

\* app.router.add_route(method, path, handler), for a handler or view class
\* that registration has returned.  The path of a route is the canonical path
\* of its resource; two resources may have one canonical path (patterns that
\* differ in the regex of a parameter, or the same pattern added again after
\* another resource), so a method may be routed twice on one path.
add_route(method, path, handler) ==
    /\ phase = "setup"
    /\ Len(routes) < MaxRoutes
    /\ routes' = Append(routes, Route(method, path, handler))
    /\ UNCHANGED <<endpoints, openapi, heap, wrappers, viewattrs, phase, calls, log>>

(***************************************************************************)
(* SchemaGenerator.setup (generator.py:395-399): hooks _on_startup and     *)
(* adds the generator's own routes, whose handlers are in no registry.     *)
(* The application is then complete and waits for the startup signal.      *)
(***************************************************************************)
setup ==
    /\ phase = "setup"
    /\ routes' = routes \o << Route("GET", "/schema", Fn("_schema")),
                               Route("GET", "/swagger/", Fn("_view")) >>
    /\ phase' = "ready"
    /\ UNCHANGED <<endpoints, openapi, heap, wrappers, viewattrs, calls, log>>

(***************************************************************************)
(* SchemaGenerator._on_startup (generator.py:296-393).                     *)
(***************************************************************************)
\* http.HTTPStatus(code).phrase; a code that is no HTTPStatus member raises
\* ValueError.
HTTPStatusPhrase ==
    (200 :> "OK") @@ (201 :> "Created") @@ (404 :> "Not Found")

\* generator.py:350-356.  get_type_hints has removed Annotated, Required and
\* NotRequired, so the loop runs once, on a Literal, and leaves its first value.
IsStr(param_type) ==
    LET t == Types[param_type]
    IN CASE t.kind = "Literal" -> t.args[1].type = "str"   \* isinstance(value, str)
         [] t.kind = "class" -> t.str                       \* issubclass(cls, str)
         [] OTHER -> FALSE                                   \* TypeError, then isinstance

\* generator.py:359.
AnnType(param_type) == IF IsStr(param_type) THEN Plain(param_type) ELSE Json(param_type)

ModelKey(path, method, role, disc) == <<path, method, role, disc>>
Model(key, mode, ta) == [key |-> key, mode |-> mode, ta |-> ta]

\* generator.py:343-362.  The parameter models of a query record, and the
\* TypedDict compiled for the wrapper.
QueryModels(path, method, query) ==
    [i \in DOMAIN Types[query].fields |->
        LET f == Types[query].fields[i]
        IN Model(ModelKey(path, method, "parameter", <<f.name, f.required>>),
                 "validation", AnnType(f.type))]

QueryAdapter(query) ==
    [name |-> query,
     fields |-> [i \in DOMAIN Types[query].fields |->
                    LET f == Types[query].fields[i]
                    IN [name |-> f.name, required |-> f.required, adapter |-> AnnType(f.type)]]]

\* generator.py:363-365.
RespModels(path, method, resps) ==
    [i \in DOMAIN resps |->
        Model(ModelKey(path, method, "response", resps[i][1]), "serialization", resps[i][2])]

\* generator.py:324-336.
Operation(handler, ep_data) ==
    [operationId |-> NameOf(handler)]
    @@ (IF Get(ep_data, "summary", "") # "" THEN [summary |-> ep_data.summary] ELSE EmptyDict)
    @@ (IF Get(ep_data, "desc", << >>) # << >> THEN [description |-> ep_data.desc] ELSE EmptyDict)
    @@ (IF Get(ep_data, "tags", << >>) # << >> THEN [tags |-> ep_data.tags] ELSE EmptyDict)

\* generator.py:317.
NormalMethod(method, route) == Lower(IF method # "None" THEN method ELSE route.method)

\* Mutant: HEAD is emitted like every other method.
SkippedNever(method) == FALSE

\* generator.py:318-320: HEAD is skipped, aiohttp adds it by itself.
Skipped(method) == method = "head"

\* Mutant: a query record that was compiled before is not collected again.
QueryRawUncompiled(ep) ==
    IF "query_raw" \in DOMAIN ep /\ "query" \notin DOMAIN ep THEN <<ep.query_raw>> ELSE << >>

\* generator.py:343: endpoints.get("query_raw"), << >> when there is none.
QueryRaw(ep) == IF "query_raw" \in DOMAIN ep THEN <<ep.query_raw>> ELSE << >>

\* generator.py:316-365: one (method, ep_data) of a matched route.  st is the
\* state of the loop: paths, models, the heap and the error raised, if any.
MethStep(st, route, meth) ==
    LET method == NormalMethod(meth[1], route)
        e      == meth[2]
        ep     == st.heap[e]
        path   == route.path
        body   == IF "body" \in DOMAIN ep
                  THEN <<Model(ModelKey(path, method, "requestBody", "None"), "validation", ep.body)>>
                  ELSE << >>
        query  == IF QueryRaw(ep) # << >>
                  THEN QueryModels(path, method, QueryRaw(ep)[1])
                  ELSE << >>
    IN IF st.error # "" THEN st
       ELSE IF Skipped(method) THEN st
       ELSE IF ~is_openapi_method(method)
            THEN [st EXCEPT !.error = "ValueError: HTTP method not support by OpenAPI"]
       ELSE [st EXCEPT
                !.paths = Put(@, path, Put(@[path], method, Operation(route.handler, ep))),
                !.models = @ \o body \o query \o RespModels(path, method, ep.resps),
                !.heap = IF QueryRaw(ep) # << >>
                         THEN [@ EXCEPT ![e] = Put(ep, "query", QueryAdapter(QueryRaw(ep)[1]))]
                         ELSE @]

RECURSIVE MethLoop(_, _, _)
MethLoop(st, route, meths) ==
    IF meths = << >> THEN st
    ELSE MethLoop(MethStep(st, route, Head(meths)), route, Tail(meths))

\* generator.py:300-316: one route of the table.
RouteStep(st, route) ==
    IF st.error # "" THEN st
    ELSE IF route.handler \notin DOMAIN endpoints THEN st
    ELSE LET ep_data   == endpoints[route.handler]
             path_data == Get(st.paths, route.path, EmptyDict)
             described == (IF Get(ep_data, "desc", << >>) # << >>
                           THEN [description |-> ep_data.desc] ELSE EmptyDict)
                          @@ (IF Get(ep_data, "summary", "") # ""
                              THEN [summary |-> ep_data.summary] ELSE EmptyDict)
                          @@ path_data
         IN MethLoop([st EXCEPT !.paths = Put(@, route.path, described)], route, ep_data.meths)

RECURSIVE RouteLoop(_, _)
RouteLoop(st, rs) ==
    IF rs = << >> THEN st
    ELSE RouteLoop(RouteStep(st, Head(rs)), Tail(rs))

\* TypeAdapter.json_schemas(models, ref_template=...), first result: the
\* schema of every (key, mode), a dict in the order the keys first appear.
RECURSIVE JsonSchemas(_)
JsonSchemas(models) ==
    IF models = << >> THEN << >>
    ELSE LET m == models[Len(models)]
         IN OPut(JsonSchemas(SubSeq(models, 1, Len(models) - 1)),
                 <<m.key, m.mode>>, AdapterSchema(m.ta))

\* TypeAdapter.json_schemas, second result: {} when no named type is used,
\* else {"$defs": {name: schema}}.
JsonSchemaDefs(models) ==
    LET names == UNION {TypeDefs(models[i].ta[2]) : i \in DOMAIN models}
    IN IF names = {} THEN EmptyDict
       ELSE ("$defs" :> [n \in names |-> DefSchema(n)])

\* generator.py:373-391: one (key, mode), schema of elems spliced into the
\* operation stored at its (path, method).
Splice(sp, elem) ==
    LET key    == elem[1][1]
        schema == elem[2]
        path   == key[1]
        method == key[2]
        op     == sp.paths[path][method]
        media  == ("application/json" :> [schema |-> schema])
        SetOp(new) == [sp EXCEPT !.paths = Put(@, path, Put(@[path], method, new))]
    IN IF sp.error # "" THEN sp
       ELSE IF key[3] = "requestBody"
            THEN SetOp(Put(op, "requestBody", [content |-> media]))
       ELSE IF key[3] = "parameter"
            THEN SetOp(Put(op, "parameters",
                           Append(Get(op, "parameters", << >>),
                                  [name |-> key[4][1], in |-> "query",
                                   required |-> key[4][2], schema |-> schema])))
       ELSE IF key[4] \notin DOMAIN HTTPStatusPhrase
            THEN [sp EXCEPT !.error = "ValueError: not a valid HTTPStatus"]
       ELSE SetOp(Put(op, "responses",
                      Put(Get(op, "responses", EmptyDict), ToString(key[4]),
                          [description |-> HTTPStatusPhrase[key[4]], content |-> media])))

RECURSIVE SpliceLoop(_, _)
SpliceLoop(sp, elems) ==
    IF elems = << >> THEN sp
    ELSE SpliceLoop(Splice(sp, Head(elems)), Tail(elems))

\* The whole coroutine, from the state it starts in.
Assembly ==
    LET collected == RouteLoop([paths |-> EmptyDict, models |-> << >>,
                                heap |-> heap, error |-> ""], routes)
        elems     == JsonSchemas(collected.models)
        defs      == JsonSchemaDefs(collected.models)
        withComps == IF defs # EmptyDict
                     THEN Put(openapi, "components", [schemas |-> defs["$defs"]])
                     ELSE openapi
        spliced   == SpliceLoop([paths |-> collected.paths, error |-> ""], elems)
    IN IF collected.error # ""
       THEN [openapi |-> openapi, heap |-> collected.heap, error |-> collected.error,
             models |-> collected.models]
       ELSE IF spliced.error # ""
       THEN [openapi |-> withComps, heap |-> collected.heap, error |-> spliced.error,
             models |-> collected.models]
       ELSE [openapi |-> IF spliced.paths # EmptyDict
                         THEN Put(withComps, "paths", spliced.paths)
                         ELSE withComps,
             heap |-> collected.heap, error |-> "", models |-> collected.models]

Startups == Len(SelectSeq(log, LAMBDA r : r.op = "_on_startup"))

\* The startup signal runs the coroutine; an exception fails the startup of
\* the application and no request is ever served.  Nothing keeps the coroutine
\* from being run again on the application once it serves.
_on_startup ==
    LET done == Assembly
    IN /\ phase \in {"ready", "serving"}
       /\ Startups < MaxStartups
       /\ openapi' = done.openapi
       /\ heap' = done.heap
       /\ phase' = IF done.error = "" THEN "serving" ELSE "failed"
       /\ log' = Append(log, [op |-> "_on_startup", error |-> done.error])
       /\ UNCHANGED <<endpoints, wrappers, viewattrs, routes, calls>>

(***************************************************************************)
(* Request time.  make_wrapper._wrapper and outer_wrapper                  *)
(* (generator.py:174-198), and the calling conventions of the two entry    *)
(* points (generator.py:274 and 285).                                      *)
(*                                                                         *)
(* A run of a callable yields: what it came to (outcome), the calls the    *)
(* wrappers made to the handlers they wrap (handler_calls, generator.py    *)
(* :191), the validations the wrappers ran (validated), and the function   *)
(* whose body was entered, if any (entered).                               *)
(***************************************************************************)
RequestArg == [type |-> "web.Request", repr |-> "request"]
SelfArg == [type |-> "web.View", repr |-> "self"]

Run(outcome, handler_calls, validated, entered) ==
    [outcome |-> outcome, handler_calls |-> handler_calls,
     validated |-> validated, entered |-> entered]

\* Mutant: the content type is left to the default of the exception.
HTTPBadRequestPlain(errors) ==
    [kind |-> "HTTPBadRequest", status |-> 400,
     content_type |-> "text/plain", text |-> errors]

\* raise web.HTTPBadRequest(text=e.json(), content_type="application/json")
HTTPBadRequest(errors) ==
    [kind |-> "HTTPBadRequest", status |-> 400,
     content_type |-> "application/json", text |-> errors]

\* Python's binding of a call to a function's signature: every positional
\* parameter and every keyword-only parameter (none has a default) is given
\* exactly once, else TypeError and the body of the function is not entered.
Binds(c, pos, kw) ==
    LET sig == Definition(c).params
    IN /\ Len(pos) = Cardinality({i \in DOMAIN sig : sig[i].kind = "POSITIONAL_OR_KEYWORD"})
       /\ DOMAIN kw = {sig[i].name : i \in {j \in DOMAIN sig : sig[j].kind = "KEYWORD_ONLY"}}

RECURSIVE Call(_, _, _, _)
RECURSIVE _wrapper(_, _, _, _)

\* Mutant: the query parameters are validated before the body.
_wrapperQueryFirst(e, wrapped, leading, request) ==
    LET ep_data   == heap[e]
        has_body  == "body" \in DOMAIN ep_data
        has_query == "query" \in DOMAIN ep_data
        body      == ValidateValue(ep_data.body, request.body, << >>)
        query     == ValidateQuery(ep_data.query, request.query)
        pos       == IF has_body THEN <<leading, body.value>> ELSE <<leading>>
        kw        == IF has_query THEN [query |-> query.value] ELSE EmptyDict
        checks    == (IF has_query THEN <<[by |-> e, what |-> "query"]>> ELSE << >>)
                     \o (IF has_body THEN <<[by |-> e, what |-> "body"]>> ELSE << >>)
        inner     == Call(wrapped, pos, kw, request)
    IN IF has_query /\ ~query.ok
       THEN Run(HTTPBadRequest(query.errors), << >>, <<[by |-> e, what |-> "query"]>>, << >>)
       ELSE IF has_body /\ ~body.ok
       THEN Run(HTTPBadRequest(body.errors), << >>, checks, << >>)
       ELSE Run(inner.outcome,
                <<[by |-> e, callee |-> wrapped, args |-> pos, kwargs |-> kw]>>
                    \o inner.handler_calls,
                checks \o inner.validated,
                inner.entered)

\* generator.py:174-191.  ep_data is heap object e as it is now; the handler
\* passed in is partial(wrapped, leading).
_wrapper(e, wrapped, leading, request) ==
    LET ep_data   == heap[e]
        has_body  == "body" \in DOMAIN ep_data
        has_query == "query" \in DOMAIN ep_data
        body      == ValidateValue(ep_data.body, request.body, << >>)
        query     == ValidateQuery(ep_data.query, request.query)
        pos       == IF has_body THEN <<leading, body.value>> ELSE <<leading>>
        kw        == IF has_query THEN [query |-> query.value] ELSE EmptyDict
        checks    == (IF has_body THEN <<[by |-> e, what |-> "body"]>> ELSE << >>)
                     \o (IF has_query THEN <<[by |-> e, what |-> "query"]>> ELSE << >>)
        inner     == Call(wrapped, pos, kw, request)
    IN IF has_body /\ ~body.ok
       THEN Run(HTTPBadRequest(body.errors), << >>, <<[by |-> e, what |-> "body"]>>, << >>)
       ELSE IF has_query /\ ~query.ok
       THEN Run(HTTPBadRequest(query.errors), << >>, checks, << >>)
       ELSE Run(inner.outcome,
                <<[by |-> e, callee |-> wrapped, args |-> pos, kwargs |-> kw]>>
                    \o inner.handler_calls,
                checks \o inner.validated,
                inner.entered)

\* A call of the callable c.  A function is entered when the call binds.  An
\* outer_wrapper hands its arguments to the lambda of its entry point, which
\* takes the wrapper, the wrapped handler and one argument (the request, or
\* the view instance, whose request attribute is the request).
Call(c, pos, kw, request) ==
    IF c[1] = "fn"
    THEN IF Binds(c, pos, kw)
         THEN Run([kind |-> "entered"], << >>, << >>, <<c>>)
         ELSE Run([kind |-> "TypeError"], << >>, << >>, << >>)
    ELSE IF Len(pos) # 1 \/ DOMAIN kw # {}
         THEN Run([kind |-> "TypeError"], << >>, << >>, << >>)
         ELSE _wrapper(c[3], wrappers[c[3]].wrapped, pos[1], request)

\* return await inner_handler() (generator.py:191) and return await
\* handler(...) (generator.py:198): the value goes up through every wrapper
\* around the function unchanged.
\* Mutant: the wrapper answers with a fresh 200 response.
WrapperReturnOk(value) == [value EXCEPT !.status = 200]

WrapperReturn(value) == value

RECURSIVE Returned(_, _)
Returned(c, value) ==
    IF c[1] = "wrapper" THEN WrapperReturn(Returned(wrappers[c[3]].wrapped, value))
    ELSE value

\* The raw bodies and query strings of the requests.
Bodies == { "\"spam\"", "{\"question\": \"spam?\"}" }

Queries == { [foo |-> "12", spam |-> "eggz", name |-> "12"],
             [foo |-> "abc", spam |-> "\"eggz\"", pick |-> "1"] }

Request(method, body, query) == [method |-> method, body |-> body, query |-> query]

\* The callable the router calls for a request on a route, with the leading
\* argument it is called with: the handler itself with the request, or, for
\* a view class, the attribute of the request's method with the instance.
Target(route, request) ==
    IF route.handler[1] = "view"
    THEN [callable |-> viewattrs[route.handler[2]][request.method], leading |-> SelfArg]
    ELSE [callable |-> route.handler, leading |-> RequestArg]

\* Whether the first thing the callable does is wait for request.read().
AwaitsRead(c) == c[1] = "wrapper" /\ "body" \in DOMAIN heap[c[3]]

Pending == [kind |-> "pending"]

\* The state of a call once its callable has run up to the handler's body.
Ran(call, r) ==
    [call EXCEPT !.pc = IF r.outcome.kind = "entered" THEN "handler" ELSE "done",
                 !.outcome = IF r.outcome.kind = "entered" THEN Pending ELSE r.outcome,
                 !.handler_calls = r.handler_calls,
                 !.validated = r.validated,
                 !.entered = r.entered]

\* The number of requests being served is bounded, by the size of the
\* application.
CallsAllowed ==
    IF Registrations <= SmallRegs /\ Len(routes) <= SmallRoutes + 2
    THEN MaxConcurrent
    ELSE MaxCalls

\* A request arrives on route i and its handler runs until it first waits.
dispatch(i, method, body, query) ==
    LET route   == routes[i]
        request == Request(method, body, query)
        target  == Target(route, request)
        call    == [route |-> i, request |-> request, target |-> target,
                    pc |-> "read", outcome |-> Pending, handler_calls |-> << >>,
                    validated |-> << >>, entered |-> << >>, returned |-> << >>]
    IN /\ phase = "serving"
       /\ Len(calls) < CallsAllowed
       /\ route.handler[2] \notin {"_schema", "_view"}
       /\ IF route.handler[1] = "view"
          THEN /\ method \in DOMAIN viewattrs[route.handler[2]]
               /\ route.method = "*" \/ Lower(route.method) = method
          ELSE method = Lower(route.method)
       /\ calls' = Append(calls,
                          IF AwaitsRead(target.callable) THEN call
                          ELSE Ran(call, Call(target.callable, <<target.leading>>,
                                              EmptyDict, request)))
       /\ UNCHANGED <<endpoints, openapi, heap, wrappers, viewattrs, routes, phase, log>>

\* Mutant: the wrapper works on the request that arrived last.
read_doneLatest(k) ==
    /\ calls[k].pc = "read"
    /\ calls' = [calls EXCEPT ![k] =
                    Ran(@, Call(@.target.callable, <<@.target.leading>>, EmptyDict,
                                calls[Len(calls)].request))]
    /\ UNCHANGED <<endpoints, openapi, heap, wrappers, viewattrs, routes, phase, log>>

\* request.read() completes: the wrapper validates and calls the handler.
read_done(k) ==
    /\ calls[k].pc = "read"
    /\ calls' = [calls EXCEPT ![k] =
                    Ran(@, Call(@.target.callable, <<@.target.leading>>, EmptyDict, @.request))]
    /\ UNCHANGED <<endpoints, openapi, heap, wrappers, viewattrs, routes, phase, log>>

\* The status codes a handler may answer with: those of its return annotation.
ResponseCodes(c) == {r[1] : r \in Range(Resps(Definition(c).returns))}

\* APIResponse(body, status=status), made by the function fn.
APIResponse(fn, status) == [status |-> status, by |-> fn]

\* The handler returns a response, which the wrappers around it hand back.
handler_return(k, status) ==
    /\ calls[k].pc = "handler"
    /\ status \in ResponseCodes(calls[k].entered[1])
    /\ calls' = [calls EXCEPT
                    ![k].pc = "done",
                    ![k].returned = <<APIResponse(calls[k].entered[1], status)>>,
                    ![k].outcome =
                        [kind |-> "response",
                         value |-> Returned(calls[k].target.callable,
                                            APIResponse(calls[k].entered[1], status))]]
    /\ UNCHANGED <<endpoints, openapi, heap, wrappers, viewattrs, routes, phase, log>>

(***************************************************************************)
(* SchemaGenerator._schema (generator.py:401-402): the document endpoint.  *)
(***************************************************************************)
_schema(i) ==
    /\ phase = "serving"
    /\ Len(calls) < CallsAllowed
    /\ routes[i].handler = Fn("_schema")
    /\ calls' = Append(calls, [route |-> i, request |-> Request("get", "", EmptyDict),
                               target |-> [callable |-> routes[i].handler, leading |-> RequestArg],
                               pc |-> "done", handler_calls |-> << >>,
                               validated |-> << >>, entered |-> << >>, returned |-> << >>,
                               outcome |-> [kind |-> "json_response", data |-> openapi]])
    /\ UNCHANGED <<endpoints, openapi, heap, wrappers, viewattrs, routes, phase, log>>

Next ==
    \/ \E f \in FunctionNames, tags \in TagChoices : api(f, tags)
    \/ \E v \in ViewNames, tags \in TagChoices : api_view(v, tags)
    \/ \E k \in RouteKeys, h \in DOMAIN endpoints : add_route(k[1], k[2], h)
    \/ setup
    \/ _on_startup
    \/ \E i \in DOMAIN routes, m \in Range(METH_ALL), b \in Bodies, q \in Queries :
          dispatch(i, m, b, q)
    \/ \E k \in DOMAIN calls : read_done(k)
    \/ \E k \in DOMAIN calls, status \in DOMAIN HTTPStatusPhrase : handler_return(k, status)
    \/ \E i \in DOMAIN routes : _schema(i)

Spec == Init /\ [][Next]_vars

(***************************************************************************)
(* Properties of a request served through a wrapper.                       *)
(***************************************************************************)
\* The call went to an outer_wrapper; Ep(k) is the _EndpointData it closes over.
Wrapped(k) == calls[k].target.callable[1] = "wrapper"
Ep(k) == heap[calls[k].target.callable[3]]
EpId(k) == calls[k].target.callable[3]

HasBody(k) == Wrapped(k) /\ "body" \in DOMAIN Ep(k)
HasQueryParam(k) == Wrapped(k) /\ "query_raw" \in DOMAIN Ep(k)

\* What the engine says of the request's payload and query parameters.
BodyResult(k) == ValidateValue(Ep(k).body, calls[k].request.body, << >>)
QueryResult(k) == ValidateQuery(QueryAdapter(Ep(k).query_raw), calls[k].request.query)

\* The calls the wrapper of call k itself made to the handler it wraps.
OwnCalls(k) == SelectSeq(calls[k].handler_calls, LAMBDA hc : hc.by = EpId(k))

\* C1: a request whose payload fails validation against the body type of its
\* endpoint ends with HTTP 400, JSON content type and the engine's non-empty
\* error list as its body, and the wrapped handler is never called or entered.
C1_InvalidBodyIs400 ==
    \A k \in DOMAIN calls :
        (HasBody(k) /\ ~BodyResult(k).ok) =>
            /\ calls[k].handler_calls = << >>
            /\ calls[k].entered = << >>
            /\ calls[k].pc \in {"read", "done"}
            /\ calls[k].pc = "done" =>
                  /\ calls[k].outcome.kind = "HTTPBadRequest"
                  /\ calls[k].outcome.status = 400
                  /\ calls[k].outcome.content_type = "application/json"
                  /\ calls[k].outcome.text = BodyResult(k).errors
                  /\ calls[k].outcome.text # << >>

C1_Witness ==
    \E k \in DOMAIN calls :
        /\ HasBody(k) /\ ~BodyResult(k).ok
        /\ calls[k].pc = "done"
        /\ calls[k].outcome.kind = "HTTPBadRequest"

\* What C2 promises of a call: the wrapper called the handler it wraps exactly
\* once, with the leading argument it was itself called with followed by the
\* decoded body, and what the handler returned is what the call answered.
HandlerGotBody(k) ==
    /\ Len(OwnCalls(k)) = 1
    /\ OwnCalls(k)[1].callee = wrappers[EpId(k)].wrapped
    /\ OwnCalls(k)[1].args = <<calls[k].target.leading, BodyResult(k).value>>
    /\ calls[k].returned # << >> =>
          /\ calls[k].pc = "done"
          /\ calls[k].outcome = [kind |-> "response", value |-> calls[k].returned[1]]

\* C2 as stated: for an endpoint with a body model, a request whose payload
\* validates calls the wrapped handler exactly once with its leading argument
\* followed by the decoded body, and gets the handler's response unmodified.
C2_ValidBodyCallsHandler ==
    \A k \in DOMAIN calls :
        (HasBody(k) /\ BodyResult(k).ok /\ calls[k].pc # "read") => HandlerGotBody(k)

\* The query parameters of call k do not fail validation: the endpoint has no
\* compiled query model, or they validate against it.
QueryPasses(k) ==
    "query" \in DOMAIN Ep(k) => ValidateQuery(Ep(k).query, calls[k].request.query).ok

\* C2, amended: for an endpoint with a body model, a request whose payload
\* validates and whose query parameters do not fail query validation calls the
\* wrapped handler exactly once with its leading argument followed by the
\* decoded body, and gets the handler's response unmodified.
C2_ValidRequestCallsHandler ==
    \A k \in DOMAIN calls :
        (HasBody(k) /\ BodyResult(k).ok /\ QueryPasses(k) /\ calls[k].pc # "read")
            => HandlerGotBody(k)

C2_Witness ==
    \E k \in DOMAIN calls :
        /\ HasBody(k) /\ BodyResult(k).ok /\ QueryPasses(k)
        /\ calls[k].target.leading = SelfArg
        /\ calls[k].pc = "done"
        /\ calls[k].outcome.kind = "response"
        /\ calls[k].outcome.value.status = 200

\* C3: for an endpoint with a keyword-only query parameter, every request
\* either has the handler called with the decoded query record as keyword
\* argument query, or is answered 400 without a call of the handler; the
\* handler is never called without a query argument.
C3_QueryAlwaysPassed ==
    \A k \in DOMAIN calls :
        (HasQueryParam(k) /\ calls[k].pc # "read") =>
            \/ /\ Len(OwnCalls(k)) = 1
               /\ "query" \in DOMAIN OwnCalls(k)[1].kwargs
               /\ QueryResult(k).ok
               /\ OwnCalls(k)[1].kwargs.query = QueryResult(k).value
            \/ /\ OwnCalls(k) = << >>
               /\ calls[k].outcome.kind = "HTTPBadRequest"

\* C4: when the endpoint has a body and a query model, the body is validated
\* first: an invalid body is answered with the body's errors alone and the
\* query parameters are not validated; the query parameters are validated,
\* and their errors reported, only when the body validated.
C4_BodyBeforeQuery ==
    \A k \in DOMAIN calls :
        (HasBody(k) /\ "query" \in DOMAIN Ep(k) /\ calls[k].pc # "read") =>
            /\ ~BodyResult(k).ok =>
                  /\ calls[k].outcome = HTTPBadRequest(BodyResult(k).errors)
                  /\ calls[k].validated = <<[by |-> EpId(k), what |-> "body"]>>
            /\ BodyResult(k).ok =>
                  /\ calls[k].validated[1] = [by |-> EpId(k), what |-> "body"]
                  /\ calls[k].validated[2] = [by |-> EpId(k), what |-> "query"]
                  /\ ~QueryPasses(k) =>
                        calls[k].outcome =
                            HTTPBadRequest(ValidateQuery(Ep(k).query, calls[k].request.query).errors)

C4_Witness ==
    \E k \in DOMAIN calls :
        /\ HasBody(k) /\ "query" \in DOMAIN Ep(k)
        /\ ~BodyResult(k).ok
        /\ ~QueryPasses(k)
        /\ calls[k].pc = "done"
        /\ calls[k].outcome.kind = "HTTPBadRequest"

(***************************************************************************)
(* Properties of registration and of the assembled document.               *)
(***************************************************************************)
IsRegistration(r) == r.op \in {"api", "api_view"}

\* C5: registering the same handler, or the same view class, a second time
\* raises, and the entry of the first registration is not replaced.
C5_ReRegistrationIsFatal ==
    \A i, j \in DOMAIN log :
        (/\ i < j
         /\ IsRegistration(log[i]) /\ IsRegistration(log[j])
         /\ log[i].target = log[j].target)
            => (log[j].raised /\ ~log[j].replaced)

\* The startup signal was given, and what _on_startup came to.
Assembled == phase \in {"serving", "failed"}
StartupError == log[Len(log)].error

Matched(i) == routes[i].handler \in DOMAIN endpoints
Meths(i) == endpoints[routes[i].handler].meths
MethodOf(i, j) == NormalMethod(Meths(i)[j][1], routes[i])

\* Route i is matched and one of its normalized methods is neither head nor
\* an OpenAPI verb.
BadRoute(i) ==
    /\ Matched(i)
    /\ \E j \in DOMAIN Meths(i) : MethodOf(i, j) \notin OPENAPI_METHODS \cup {"head"}

\* C6: when a normalized method of a matched route is neither head nor an
\* OpenAPI verb, assembly aborts with the method error and the document has
\* gained neither paths nor components.
C6_BadMethodAborts ==
    (Assembled /\ \E i \in DOMAIN routes : BadRoute(i)) =>
        /\ phase = "failed"
        /\ StartupError = "ValueError: HTTP method not support by OpenAPI"
        /\ DOMAIN openapi = {"openapi", "info"}

\* A route with operations and a shared component was processed first.
C6_Witness ==
    /\ phase = "failed"
    /\ Len(routes) >= 2
    /\ Matched(1) /\ ~BadRoute(1) /\ routes[1].method = "GET"
    /\ "Poll" \in TypeDefs(heap[Meths(1)[1][2]].resps[1][2][2])
    /\ BadRoute(2)

\* The model triples one pass of the first loop collects from the state.
Collected ==
    RouteLoop([paths |-> EmptyDict, models |-> << >>, heap |-> heap, error |-> ""],
              routes).models

PathItems == Get(openapi, "paths", EmptyDict)

\* C7: no path item of the document has a head key, and no model key is
\* collected for the method head.
C7_NoHead ==
    /\ \A p \in DOMAIN PathItems : "head" \notin DOMAIN PathItems[p]
    /\ \A n \in DOMAIN Collected : Collected[n].key[2] # "head"

\* A function matched by a HEAD route and a view with a head method, both
\* assembled beside an emitted operation.
C7_Witness ==
    /\ phase = "serving"
    /\ \E i \in DOMAIN routes :
          Matched(i) /\ routes[i].method = "HEAD" /\ Meths(i)[1][1] = "None"
    /\ \E i \in DOMAIN routes :
          Matched(i) /\ \E j \in DOMAIN Meths(i) : Meths(i)[j][1] = "head"
    /\ PathItems # EmptyDict

\* The operations of a path item: its keys that are methods.
Operations(item) == DOMAIN item \cap OPENAPI_METHODS

\* C8: the document has paths only if every path item in it holds an
\* operation, and components.schemas only if a shared component exists.
C8_PathsOnlyIfPopulated ==
    phase = "serving" =>
        /\ "paths" \in DOMAIN openapi =>
              /\ DOMAIN openapi.paths # {}
              /\ \A p \in DOMAIN openapi.paths : Operations(openapi.paths[p]) # {}
        /\ "components" \in DOMAIN openapi => DOMAIN openapi.components.schemas # {}

\* C9: routes whose handler is not in the registry raise nothing and add
\* nothing: every path of the document and of the model keys is the path of
\* a matched route, and when no route is matched the document is exactly
\* openapi and info, info being the one passed to the constructor or the
\* placeholder.
C9_UnmatchedRoutesSkipped ==
    Assembled =>
        /\ \A p \in DOMAIN PathItems : \E i \in DOMAIN routes : Matched(i) /\ routes[i].path = p
        /\ \A n \in DOMAIN Collected :
              \E i \in DOMAIN routes : Matched(i) /\ routes[i].path = Collected[n].key[1]
        /\ (\A i \in DOMAIN routes : ~Matched(i)) =>
              /\ phase = "serving"
              /\ openapi = [openapi |-> "3.1.0",
                            info |-> IF log[1].info = NoInfo
                                     THEN [title |-> "API", version |-> "1.0"]
                                     ELSE log[1].info]

\* A handler was registered, no route leads to it, and the routes the
\* application does have are all skipped.
C9_Witness ==
    /\ phase = "serving"
    /\ endpoints # EmptyDict
    /\ routes # << >>
    /\ \A i \in DOMAIN routes : ~Matched(i)
    /\ log[1].info = CustomInfo

\* The tags passed when the identity was last registered.
TagsPassed(key) ==
    LET regs == {n \in DOMAIN log : IsRegistration(log[n]) /\ log[n].returned = key}
    IN log[CHOOSE n \in regs : \A m \in regs : m <= n].tags

\* No later route, or later method of the same route, stores an operation at
\* the same (path, method).
LastWriter(i, j) ==
    \A i2 \in DOMAIN routes :
        Matched(i2) /\ routes[i2].path = routes[i].path =>
            \A j2 \in DOMAIN Meths(i2) :
                (i2 > i \/ (i2 = i /\ j2 > j)) => MethodOf(i2, j2) # MethodOf(i, j)

\* C10: the operation emitted for a registered endpoint on a non-HEAD route
\* has the tags passed at registration, in the same order, and has no tags
\* only when none were passed.
C10_TagsEmitted ==
    phase = "serving" =>
        \A i \in DOMAIN routes :
            Matched(i) =>
                \A j \in DOMAIN Meths(i) :
                    (MethodOf(i, j) # "head" /\ LastWriter(i, j)) =>
                        Get(openapi.paths[routes[i].path][MethodOf(i, j)], "tags", << >>)
                            = TagsPassed(routes[i].handler)

(***************************************************************************)
(* Properties of the wrappers installed at registration.                   *)
(***************************************************************************)
\* The descriptor has a body model or the annotation of a query parameter.
HasModel(ep_data) == "body" \in DOMAIN ep_data \/ "query_raw" \in DOMAIN ep_data

\* The descriptor introspection makes of the function f.
Introspected(f) == BodyKeys(Functions[f].params) @@ QueryKeys(Functions[f].params)

\* The descriptor of method m of the view v, as the registry holds it.
MethodEp(v, m) ==
    LET meths == endpoints[ViewClass(v)].meths
    IN heap[meths[CHOOSE i \in DOMAIN meths : meths[i][1] = m][2]]

\* C11: api returns the handler it was given, and stores the descriptor under
\* it, exactly when the endpoint has neither a body model nor a query
\* parameter, and returns a wrapper around it otherwise; api_view leaves a
\* method of the view in place exactly when its endpoint has neither, and
\* sets a wrapper in its place otherwise.
C11_WrapperOnlyIfNeeded ==
    /\ \A n \in DOMAIN log :
          log[n].op = "api" =>
              /\ log[n].returned \in DOMAIN endpoints
              /\ ~HasModel(Introspected(log[n].target[2])) => log[n].returned = log[n].target
              /\ HasModel(Introspected(log[n].target[2])) =>
                    /\ log[n].returned[1] = "wrapper"
                    /\ wrappers[log[n].returned[3]].wrapped = log[n].target
    /\ \A v \in ViewNames :
          ViewClass(v) \in DOMAIN endpoints =>
              \A m \in DOMAIN viewattrs[v] :
                  /\ ~HasModel(MethodEp(v, m)) => viewattrs[v][m] = MethodFn(v, m)
                  /\ HasModel(MethodEp(v, m)) =>
                        /\ viewattrs[v][m][1] = "wrapper"
                        /\ heap[viewattrs[v][m][3]] = MethodEp(v, m)

\* A function and a method left as they were, beside a wrapped method.
C11_Witness ==
    /\ \E n \in DOMAIN log :
          log[n].op = "api" /\ log[n].returned = log[n].target
    /\ \E v \in ViewNames :
          /\ ViewClass(v) \in DOMAIN endpoints
          /\ \E m \in DOMAIN viewattrs[v] : viewattrs[v][m] = MethodFn(v, m)
          /\ \E m \in DOMAIN viewattrs[v] : viewattrs[v][m][1] = "wrapper"

(***************************************************************************)
(* Properties of the schema fragments and of the shared components.        *)
(***************************************************************************)
JsonMedia == "application/json"

\* The schema fragment the document holds for a model key.
FragmentAt(key) ==
    LET op == openapi.paths[key[1]][key[2]]
    IN CASE key[3] = "requestBody" -> op.requestBody.content[JsonMedia].schema
         [] key[3] = "parameter" ->
               op.parameters[CHOOSE i \in DOMAIN op.parameters :
                                 op.parameters[i].name = key[4][1]].schema
         [] OTHER -> op.responses[ToString(key[4])].content[JsonMedia].schema

\* Every schema fragment of the document.
DocFragments ==
    UNION { LET op == PathItems[p][m]
            IN (IF "requestBody" \in DOMAIN op
                THEN {op.requestBody.content[JsonMedia].schema} ELSE {})
               \cup {op.parameters[i].schema : i \in DOMAIN Get(op, "parameters", << >>)}
               \cup {op.responses[c].content[JsonMedia].schema :
                        c \in DOMAIN Get(op, "responses", EmptyDict)}
          : <<p, m>> \in {pm \in (DOMAIN PathItems) \X OPENAPI_METHODS :
                              pm[2] \in DOMAIN PathItems[pm[1]]} }

\* The references a schema makes, and whether it spells out an object.
RECURSIVE SchemaRefs(_)
SchemaRefs(schema) ==
    (IF "$ref" \in DOMAIN schema THEN {schema["$ref"]} ELSE {})
    \cup (IF "items" \in DOMAIN schema THEN SchemaRefs(schema.items) ELSE {})
    \cup (IF "contentSchema" \in DOMAIN schema THEN SchemaRefs(schema.contentSchema) ELSE {})

RECURSIVE Inlines(_)
Inlines(schema) ==
    \/ "properties" \in DOMAIN schema
    \/ "items" \in DOMAIN schema /\ Inlines(schema.items)
    \/ "contentSchema" \in DOMAIN schema /\ Inlines(schema.contentSchema)

ComponentNames ==
    IF "components" \in DOMAIN openapi THEN DOMAIN openapi.components.schemas ELSE {}

\* Model n is the last one collected under its key and mode.
LastModel(n) ==
    LET col == Collected
    IN \A n2 \in DOMAIN col :
           n2 > n => <<col[n2].key, col[n2].mode>> # <<col[n].key, col[n].mode>>

\* C12: components.schemas has one entry for each name of a named composite
\* type the collected models use, and no other entry; no fragment spells out
\* an object, and the fragment of a model refers to each named type it uses
\* by #/components/schemas/<name>.
C12_OneSharedComponent ==
    phase = "serving" =>
        LET col == Collected
            last(n) == \A n2 \in DOMAIN col :
                           n2 > n => <<col[n2].key, col[n2].mode>> # <<col[n].key, col[n].mode>>
        IN /\ ComponentNames = UNION {TypeDefs(col[n].ta[2]) : n \in DOMAIN col}
           /\ \A t \in ComponentNames :
                 /\ Types[t].kind = "TypedDict"
                 /\ openapi.components.schemas[t].title = t
           /\ \A f \in DocFragments :
                 /\ ~Inlines(f)
                 /\ SchemaRefs(f) \subseteq {"#/components/schemas/" \o t : t \in ComponentNames}
           /\ \A n \in DOMAIN col :
                 last(n) =>
                     SchemaRefs(FragmentAt(col[n].key))
                         = {"#/components/schemas/" \o t : t \in TypeDefs(col[n].ta[2])}

\* Two operations use Poll, one through a collection, beside a second
\* component and fragments of primitive types.
C12_Witness ==
    /\ phase = "serving"
    /\ ComponentNames = {"Poll", "NewPoll"}
    /\ \E n1, n2 \in DOMAIN Collected :
          /\ Collected[n1].key[1] # Collected[n2].key[1]
          /\ Collected[n1].ta = Plain("tuple[Poll, ...]")
          /\ Collected[n2].ta = Plain("Poll")
    /\ \E f \in DocFragments : SchemaRefs(f) = {}

(***************************************************************************)
(* Properties of a second run of the assembly.                             *)
(***************************************************************************)
\* C13: a run of the assembly on an application that already serves, whose
\* registry and routes are as the first run saw them, succeeds and leaves
\* paths and components of the stored document as they were.
C13_AssemblyIdempotent ==
    [][(phase = "serving" /\ Startups' > Startups) =>
           /\ phase' = "serving"
           /\ DOMAIN openapi' = DOMAIN openapi
           /\ PathItems' = PathItems
           /\ Get(openapi', "components", EmptyDict) = Get(openapi, "components", EmptyDict)]_vars

\* The assembly has run twice on a document with parameters, a request body
\* and a shared component.
C13_Witness ==
    /\ phase = "serving"
    /\ Startups = 2
    /\ ComponentNames # {}
    /\ \E p \in DOMAIN PathItems, m \in OPENAPI_METHODS :
          /\ m \in DOMAIN PathItems[p]
          /\ "parameters" \in DOMAIN PathItems[p][m]
    /\ \E p \in DOMAIN PathItems, m \in OPENAPI_METHODS :
          /\ m \in DOMAIN PathItems[p]
          /\ "requestBody" \in DOMAIN PathItems[p][m]

(***************************************************************************)
(* Properties of the fields of a query record.                             *)
(***************************************************************************)
\* C14: every field of a query record is validated as raw text exactly when
\* its type is the plain string type or a literal of string values, and as a
\* JSON-encoded string of its type otherwise; the parameter schema of the
\* field in the document follows the same choice, and so does the record a
\* request's handler is given, or the errors the request is answered with.
C14_FieldChoice ==
    LET TextType(t) ==
            \/ t = "str"
            \/ /\ Types[t].kind = "Literal"
               /\ \A i \in DOMAIN Types[t].args : Types[t].args[i].type = "str"
        FieldAdapter(t) == IF TextType(t) THEN Plain(t) ELSE Json(t)
        FieldWise(query_raw) ==
            [name |-> query_raw,
             fields |-> [i \in DOMAIN Types[query_raw].fields |->
                            LET f == Types[query_raw].fields[i]
                            IN [name |-> f.name, required |-> f.required,
                                adapter |-> FieldAdapter(f.type)]]]
    IN /\ \A e \in DOMAIN heap :
             "query" \in DOMAIN heap[e] => heap[e].query = FieldWise(heap[e].query_raw)
       /\ phase = "serving" =>
             \A n \in DOMAIN Collected :
                 (Collected[n].key[3] = "parameter" /\ LastModel(n)) =>
                     FragmentAt(Collected[n].key)
                         = AdapterSchema(FieldAdapter(Collected[n].ta[2]))
       /\ \A k \in DOMAIN calls :
             (/\ Wrapped(k) /\ "query" \in DOMAIN Ep(k)
              /\ [by |-> EpId(k), what |-> "query"] \in Range(calls[k].validated)) =>
                 LET r == ValidateQuery(FieldWise(Ep(k).query_raw), calls[k].request.query)
                 IN IF r.ok
                    THEN /\ Len(OwnCalls(k)) = 1
                         /\ OwnCalls(k)[1].kwargs = [query |-> r.value]
                    ELSE calls[k].outcome = HTTPBadRequest(r.errors)

(***************************************************************************)
(* Properties of the responses of an operation.                            *)
(***************************************************************************)
\* The members of the return annotation of the endpoint behind method j of
\* route i.
Returns(i, j) ==
    IF routes[i].handler[1] = "view"
    THEN Views[routes[i].handler[2]].methods[Meths(i)[j][1]].returns
    ELSE Definition(routes[i].handler).returns

\* C15: the operation emitted for an endpoint has a non-empty responses map
\* whose entries are those of the status codes its return annotation declares,
\* one for each, a member without a status literal declaring 200; every entry
\* is keyed by its code written as a string and described by the reason phrase
\* of that code.
C15_ResponsesPerCode ==
    LET Phrase == (200 :> "OK") @@ (201 :> "Created") @@ (404 :> "Not Found")
        Declared(i, j) ==
            {IF Len(Returns(i, j)[n]) >= 2 THEN Returns(i, j)[n][2] ELSE 200 :
                n \in DOMAIN Returns(i, j)}
    IN phase = "serving" =>
        \A i \in DOMAIN routes :
            Matched(i) =>
                \A j \in DOMAIN Meths(i) :
                    (MethodOf(i, j) # "head" /\ LastWriter(i, j)) =>
                        LET op == openapi.paths[routes[i].path][MethodOf(i, j)]
                        IN /\ "responses" \in DOMAIN op
                           /\ DOMAIN op.responses # {}
                           /\ DOMAIN op.responses = {ToString(c) : c \in Declared(i, j)}
                           /\ \A c \in Declared(i, j) :
                                 op.responses[ToString(c)].description = Phrase[c]

(***************************************************************************)
(* Properties of requests served at the same time.                         *)
(***************************************************************************)
\* What the callable of call k does with the request of call k, by itself.
Alone(k) ==
    Call(calls[k].target.callable, <<calls[k].target.leading>>, EmptyDict, calls[k].request)

\* Every call that is past its first wait is where it would be when served
\* alone: the same validations, the same call of the handler, the same 400 or
\* TypeError, the handler's own response; a read of the document endpoint
\* answers the stored document.
AloneOutcomes ==
    \A k \in DOMAIN calls :
        IF calls[k].target.callable = Fn("_schema")
        THEN calls[k].outcome = [kind |-> "json_response", data |-> openapi]
        ELSE calls[k].pc # "read" =>
                LET alone == Alone(k)
                IN /\ calls[k].handler_calls = alone.handler_calls
                   /\ calls[k].validated = alone.validated
                   /\ calls[k].entered = alone.entered
                   /\ alone.outcome.kind # "entered" =>
                         calls[k].pc = "done" /\ calls[k].outcome = alone.outcome
                   /\ (alone.outcome.kind = "entered" /\ calls[k].pc = "done") =>
                         calls[k].outcome = [kind |-> "response", value |-> calls[k].returned[1]]

\* C16: on a serving application every step of a request (its arrival, the
\* end of its read, the return of its handler, a read of the document
\* endpoint), in any interleaving with the other requests, leaves the
\* registry, the descriptors, the wrappers and the document as they are, and
\* in every state of a serving application every request is where it is when
\* served alone.
C16_RequestsIndependent ==
    /\ [](phase = "serving" => AloneOutcomes)
    /\ [][(phase = "serving" /\ calls' # calls) =>
              UNCHANGED <<endpoints, heap, wrappers, viewattrs, openapi>>]_vars

\* A request is inside the handler while a later one on the same endpoint,
\* with another payload, was answered 400.
C16_Witness ==
    /\ Len(calls) = 2
    /\ Wrapped(1) /\ Wrapped(2) /\ EpId(1) = EpId(2)
    /\ calls[1].request # calls[2].request
    /\ calls[1].pc = "handler"
    /\ calls[2].pc = "done"
    /\ calls[2].outcome.kind = "HTTPBadRequest"

(***************************************************************************)
(* Properties of the descriptors.                                          *)
(***************************************************************************)
\* C17: no step changes a descriptor that registration has stored: it keeps
\* the fields and the values it had when registration returned, through the
\* assembly of the document and through every request.
C17_DescriptorsImmutable ==
    [][\A e \in DOMAIN heap : heap'[e] = heap[e]]_vars

(***************************************************************************)
(* Properties of the model keys.                                           *)
(***************************************************************************)
\* Two model keys name the same place of the same operation.
SamePlace(k1, k2) ==
    /\ k1[1] = k2[1] /\ k1[2] = k2[2] /\ k1[3] = k2[3]
    /\ k1[3] = "parameter" => k1[4][1] = k2[4][1]
    /\ k1[3] = "response" => k1[4] = k2[4]

\* C18: the models one pass collects hold at most one requestBody key for a
\* (path, method), one parameter key for a field name of a (path, method) and
\* one response key for a status code of a (path, method); so the request
\* body, the parameters and the responses of an assembled operation are those
\* of the descriptor whose operation is stored at its (path, method).
C18_ModelKeysUnique ==
    /\ \A n1, n2 \in DOMAIN Collected :
          n1 # n2 => ~SamePlace(Collected[n1].key, Collected[n2].key)
    /\ phase = "serving" =>
          \A i \in DOMAIN routes :
              Matched(i) =>
                  \A j \in DOMAIN Meths(i) :
                      (MethodOf(i, j) # "head" /\ LastWriter(i, j)) =>
                          LET op == openapi.paths[routes[i].path][MethodOf(i, j)]
                              ep == heap[Meths(i)[j][2]]
                              ps == Get(op, "parameters", << >>)
                              fs == IF "query_raw" \in DOMAIN ep
                                    THEN Types[ep.query_raw].fields ELSE << >>
                          IN /\ "requestBody" \in DOMAIN op <=> "body" \in DOMAIN ep
                             /\ [n \in DOMAIN ps |-> ps[n].name] = [n \in DOMAIN fs |-> fs[n].name]
                             /\ DOMAIN Get(op, "responses", EmptyDict)
                                   = {ToString(c) : c \in OKeys(ep.resps)}

(***************************************************************************)
(* Properties of a failed assembly.                                        *)
(***************************************************************************)
\* C19: a run of the assembly that ends with an error, whatever the error,
\* leaves the stored document exactly as it was before the run.
C19_FailedAssemblyChangesNothing ==
    [][(Startups' > Startups /\ StartupError' # "") => openapi' = openapi]_vars

====
